---------------------------- MODULE Spec2Model ----------------------------
(***************************************************************************)
(* Three independent scripts of the repository:                            *)
(*   - file_storage/dec89cb2-.../test.py : show_last_20_lines (SpecTail)    *)
(*   - file_storage/dc345828-.../test.py : the Telegram math bot (SpecBot)  *)
(*   - file_storage/9cf27860-.../ee.py   : the sin/cos plot (SpecPlot)      *)
(* Each script is a state machine of its own; the variables of the other   *)
(* two scripts stay at their initial values.                               *)
(***************************************************************************)
EXTENDS Integers, Sequences, FiniteSets, TLC

VARIABLES
    \* ---- show_last_20_lines ----
    fileExists,   \* whether file_path names an existing file
    fileData,     \* the characters stored in the file
    tailPc,       \* position in show_last_20_lines
    lines,        \* local `lines`
    it,           \* position of the for loop in lines[-20:]
    stdout,       \* the characters written to standard output
    tailExc,      \* the exception that left show_last_20_lines, or "none"
    \* ---- the bot: one entry per handler invocation ----
    cmd,          \* the command that invoked the handler, "none" before
    args,         \* context.args of the invocation
    pc,           \* position of the handler coroutine
    fresh,        \* /data: the frame as get_df() returned it (line 20)
    df,           \* /data: local `df` as passed to to_string (line 25)
    caught,       \* /calc: the exception the except clause swallowed last
    attempts,     \* the reply_text calls made, each with its outcome
    exc,          \* the exception that left the handler, or "none"
    \* ---- the plotting script ----
    plotPc,       \* position in the script
    x,            \* the samples of the domain
    y,            \* sin(x), as far as computed
    z,            \* cos(x) * 2, as far as computed
    plotOut       \* the (label, value) pairs printed

tailVars == <<fileExists, fileData, tailPc, lines, it, stdout, tailExc>>
botVars == <<cmd, args, pc, fresh, df, caught, attempts, exc>>

plotVars == <<plotPc, x, y, z, plotOut>>

vars == <<tailVars, botVars, plotVars>>

Max(a, b) == IF a >= b THEN a ELSE b
Min(a, b) == IF a <= b THEN a ELSE b

(***************************************************************************)
(*                     show_last_20_lines(file_path)                       *)
(***************************************************************************)

\* A character is a one-character string.
LF == "\n"
CR == "\r"

\* Largest number of lines of a generated input file.
MaxLines == 22

\* The count of the slice lines[-20:].
TailCount == 20

Alphabet ==
    << "a", "b", "c", "d", "e", "f", "g", "h", "i", "j", "k", "l", "m",
       "n", "o", "p", "q", "r", "s", "t", "u", "v", "w", "x", "y", "z" >>

TermStyles == {"lf", "crlf", "cr", "mixed"}

\* The text of the i-th written line: one letter that identifies the line;
\* in a "mixed" file every fourth line is blank.
Body(i, style) ==
    IF style = "mixed" /\ i % 4 = 0 THEN <<>>
    ELSE << Alphabet[((i - 1) % Len(Alphabet)) + 1] >>

\* The line terminator written after the i-th line.
Term(i, style) ==
    CASE style = "lf"   -> <<LF>>
      [] style = "crlf" -> <<CR, LF>>
      [] style = "cr"   -> <<CR>>
      [] OTHER          -> IF i % 3 = 0 THEN <<LF>>
                           ELSE IF i % 3 = 1 THEN <<CR, LF>> ELSE <<CR>>

\* The characters of a file written as n lines; the last one is terminated
\* only when final holds.
RECURSIVE RawFile(_, _, _)
RawFile(n, style, final) ==
    IF n = 0 THEN <<>>
    ELSE RawFile(n - 1, style, TRUE) \o Body(n, style)
         \o (IF final THEN Term(n, style) ELSE <<>>)

Files ==
    { RawFile(n, style, final) :
        n \in 0..MaxLines, style \in TermStyles, final \in BOOLEAN }

\* open(file_path, 'r') decodes with universal newlines: "\r\n" and a lone
\* "\r" are both read as "\n".
RECURSIVE TranslateNewlines(_)
TranslateNewlines(cs) ==
    IF cs = <<>> THEN <<>>
    ELSE IF Head(cs) = CR
         THEN IF Len(cs) >= 2 /\ cs[2] = LF
              THEN <<LF>> \o TranslateNewlines(Tail(Tail(cs)))
              ELSE <<LF>> \o TranslateNewlines(Tail(cs))
         ELSE <<Head(cs)>> \o TranslateNewlines(Tail(cs))

\* Splits decoded text after every "\n", keeping it; cur is the line begun.
RECURSIVE SplitAfterLF(_, _)
SplitAfterLF(cs, cur) ==
    IF cs = <<>> THEN (IF cur = <<>> THEN <<>> ELSE <<cur>>)
    ELSE IF Head(cs) = LF
         THEN <<Append(cur, LF)>> \o SplitAfterLF(Tail(cs), <<>>)
         ELSE SplitAfterLF(Tail(cs), Append(cur, Head(cs)))

\* file.readlines() of a text-mode file.
readlines(data) == SplitAfterLF(TranslateNewlines(data), <<>>)

\* a slip of the slice: lines[:20], the first k elements.
SliceFirst(seq, k) == SubSeq(seq, 1, Min(Len(seq), k))

\* seq[-k:] of Python: the last k elements, all of them when there are fewer.
SliceLast(seq, k) == SubSeq(seq, Max(Len(seq) - k, 0) + 1, Len(seq))

\* print(line, end='') writes the line and nothing after it.
print(out, line, end) == out \o line \o end

TailStart ==
    /\ fileExists \in BOOLEAN
    /\ fileData \in (IF fileExists THEN Files ELSE {<<>>})
    /\ tailPc = "call"
    /\ lines = <<>>
    /\ it = 0
    /\ stdout = <<>>
    /\ tailExc = "none"

\* a slip of open(): a mode that creates the missing file (as 'a+' does).
OpenCreating ==
    /\ tailPc = "call"
    /\ tailPc' = "opened"
    /\ UNCHANGED <<fileExists, fileData, lines, it, stdout, tailExc>>
    /\ UNCHANGED <<botVars, plotVars>>

\* line 2: open(); a missing path raises FileNotFoundError, which nothing
\* in the function catches.
Open ==
    /\ tailPc = "call"
    /\ IF fileExists
       THEN /\ tailPc' = "opened"
            /\ tailExc' = tailExc
       ELSE /\ tailPc' = "raised"
            /\ tailExc' = "FileNotFoundError"
    /\ UNCHANGED <<fileExists, fileData, lines, it, stdout>>
    /\ UNCHANGED <<botVars, plotVars>>

\* line 3: lines = file.readlines(); line 4 starts the loop over the slice.
ReadLines ==
    /\ tailPc = "opened"
    /\ lines' = readlines(fileData)
    /\ it' = 1
    /\ tailPc' = "loop"
    /\ UNCHANGED <<fileExists, fileData, stdout, tailExc>>
    /\ UNCHANGED <<botVars, plotVars>>

\* lines 4-5: one iteration of `for line in lines[-20:]`.
PrintLine ==
    /\ tailPc = "loop"
    /\ it <= Len(SliceLast(lines, TailCount))
    /\ stdout' = print(stdout, SliceLast(lines, TailCount)[it], <<>>)
    /\ it' = it + 1
    /\ UNCHANGED <<fileExists, fileData, tailPc, lines, tailExc>>
    /\ UNCHANGED <<botVars, plotVars>>

\* the loop is exhausted and the with block closes the file.
Close ==
    /\ tailPc = "loop"
    /\ it > Len(SliceLast(lines, TailCount))
    /\ tailPc' = "done"
    /\ UNCHANGED <<fileExists, fileData, lines, it, stdout, tailExc>>
    /\ UNCHANGED <<botVars, plotVars>>

\* The script is not run.
TailIdle ==
    /\ fileExists = FALSE /\ fileData = <<>> /\ tailPc = "call"
    /\ lines = <<>> /\ it = 0 /\ stdout = <<>> /\ tailExc = "none"

(***************************************************************************)
(*        Floating-point values and the math functions the bot uses        *)
(*                                                                         *)
(* A float is a decimal m * 10^e with a sign, or an infinity, or nan.      *)
(* Values are kept canonical (m without trailing zeros), so that equal     *)
(* records are equal numbers.  math.sqrt is computed to 3 further decimal  *)
(* digits and math.log to 6 decimals, both truncated.                      *)
(***************************************************************************)

Num(neg, m, e) == [k |-> "num", neg |-> neg, m |-> m, e |-> e]
Inf(neg) == [k |-> "inf", neg |-> neg, m |-> 0, e |-> 0]
NaN == [k |-> "nan", neg |-> FALSE, m |-> 0, e |-> 0]

RECURSIVE Pow10(_)
Pow10(n) == IF n = 0 THEN 1 ELSE 10 * Pow10(n - 1)

RECURSIVE NumDigits(_)
NumDigits(m) == IF m < 10 THEN 1 ELSE 1 + NumDigits(m \div 10)

RECURSIVE Canon(_)
Canon(v) ==
    IF v.k # "num" THEN v
    ELSE IF v.m = 0 THEN Num(v.neg, 0, 0)
    ELSE IF v.m % 10 = 0 THEN Canon(Num(v.neg, v.m \div 10, v.e + 1))
    ELSE v

\* The decimal exponent of the leading digit of m * 10^e.
Mag10(m, e) == NumDigits(m) - 1 + e

\* The four leading digits of m.
Lead4(m) ==
    IF NumDigits(m) >= 4 THEN m \div Pow10(NumDigits(m) - 4)
    ELSE m * Pow10(4 - NumDigits(m))

\* Above the largest double, 1.7976931348623157e308 (compared to 4 digits).
AboveDoubleMax(m, e) ==
    m # 0 /\ (Mag10(m, e) > 308 \/ (Mag10(m, e) = 308 /\ Lead4(m) >= 1798))

\* Below the smallest subnormal double, about 4.9e-324: rounds to zero.
BelowDoubleMin(m, e) == m # 0 /\ Mag10(m, e) < 0 - 324

IsDigit(c) == c \in {"0", "1", "2", "3", "4", "5", "6", "7", "8", "9"}

DigitValue(c) ==
    CASE c = "0" -> 0 [] c = "1" -> 1 [] c = "2" -> 2 [] c = "3" -> 3
      [] c = "4" -> 4 [] c = "5" -> 5 [] c = "6" -> 6 [] c = "7" -> 7
      [] c = "8" -> 8 [] c = "9" -> 9

RECURSIVE NumLeadingDigits(_)
NumLeadingDigits(cs) ==
    IF cs # <<>> /\ IsDigit(Head(cs)) THEN 1 + NumLeadingDigits(Tail(cs))
    ELSE 0

RECURSIVE DigitsValue(_)
DigitsValue(ds) ==
    IF ds = <<>> THEN 0
    ELSE 10 * DigitsValue(SubSeq(ds, 1, Len(ds) - 1)) + DigitValue(ds[Len(ds)])

Drop(cs, n) == SubSeq(cs, n + 1, Len(cs))

RECURSIVE StripLeft(_)
StripLeft(cs) ==
    IF cs # <<>> /\ Head(cs) = " " THEN StripLeft(Tail(cs)) ELSE cs

RECURSIVE StripRight(_)
StripRight(cs) ==
    IF cs # <<>> /\ cs[Len(cs)] = " "
    THEN StripRight(SubSeq(cs, 1, Len(cs) - 1)) ELSE cs

\* The outcome of an expression: a value, or the exception it raised.
Ok(v) == [exc |-> "none", v |-> v]
Raise(e) == [exc |-> e, v |-> NaN]

\* The decimal m * 10^e as a double: beyond the range of a double it is an
\* infinity, below it zero.
ToDouble(neg, m, e) ==
    IF AboveDoubleMax(m, e) THEN Ok(Inf(neg))
    ELSE IF BelowDoubleMin(m, e) THEN Ok(Num(neg, 0, 0))
    ELSE Ok(Canon(Num(neg, m, e)))

\* The digits of the exponent: at least one, and nothing after them.
FloatExponentDigits(neg, digits, nf, eneg, r) ==
    IF r = <<>> \/ NumLeadingDigits(r) # Len(r) THEN Raise("ValueError")
    ELSE ToDouble(neg, DigitsValue(digits),
                  (IF eneg THEN 0 - DigitsValue(r) ELSE DigitsValue(r)) - nf)

\* After the mantissa: the end, or "e" and a signed exponent.
FloatExponent(neg, digits, nf, r) ==
    IF digits = <<>> THEN Raise("ValueError")
    ELSE IF r = <<>> THEN ToDouble(neg, DigitsValue(digits), 0 - nf)
    ELSE IF Head(r) # "e" THEN Raise("ValueError")
    ELSE IF Len(r) >= 2 /\ r[2] \in {"+", "-"}
         THEN FloatExponentDigits(neg, digits, nf, r[2] = "-", Drop(r, 2))
    ELSE FloatExponentDigits(neg, digits, nf, FALSE, Drop(r, 1))

\* The digits after the point; nf of them lead `r`.
FloatFraction(neg, intDigits, r, nf) ==
    FloatExponent(neg, intDigits \o SubSeq(r, 1, nf), nf, Drop(r, nf))

\* The mantissa: ni digits lead `u`, a point and more digits may follow.
FloatMantissa(neg, u, ni) ==
    IF Len(u) > ni /\ u[ni + 1] = "."
    THEN FloatFraction(neg, SubSeq(u, 1, ni), Drop(u, ni + 1),
                       NumLeadingDigits(Drop(u, ni + 1)))
    ELSE FloatExponent(neg, SubSeq(u, 1, ni), 0, Drop(u, ni))

FloatUnsigned(neg, u) ==
    IF u = <<"i", "n", "f">> THEN Ok(Inf(neg))
    ELSE IF u = <<"n", "a", "n">> THEN Ok(NaN)
    ELSE FloatMantissa(neg, u, NumLeadingDigits(u))

FloatStripped(t) ==
    IF t # <<>> /\ Head(t) \in {"+", "-"}
    THEN FloatUnsigned(Head(t) = "-", Tail(t))
    ELSE FloatUnsigned(FALSE, t)

\* float(s) for a string of digits, ".", "e", signs, blanks and lower-case
\* letters: blanks around it are ignored; "inf" and "nan" are values; a
\* decimal needs a digit in its mantissa and, after "e", an exponent with a
\* digit; anything else raises ValueError.
float(s) == FloatStripped(StripRight(StripLeft(s)))

\* float(i) of an int.
IntToFloat(i) == Canon(Num(i < 0, IF i < 0 THEN 0 - i ELSE i, 0))

\* a slip of line 32: n * 2.
SquareAsDouble(v) == Ok(Canon(Num(v.neg, 2 * v.m, v.e)))

\* n ** 2 of a float: OverflowError when the square leaves the range of a
\* double; an underflow gives 0.0.
Square(v) ==
    IF v.k = "nan" THEN Ok(NaN)
    ELSE IF v.k = "inf" THEN Ok(Inf(FALSE))
    ELSE IF AboveDoubleMax(v.m * v.m, 2 * v.e) THEN Raise("OverflowError")
    ELSE IF BelowDoubleMin(v.m * v.m, 2 * v.e) THEN Ok(Num(FALSE, 0, 0))
    ELSE Ok(Canon(Num(FALSE, v.m * v.m, 2 * v.e)))

\* The integer square root, by bisection: lo^2 <= n < hi^2.
RECURSIVE ISqrtBetween(_, _, _)
ISqrtBetween(n, lo, hi) ==
    IF hi - lo <= 1 THEN lo
    ELSE LET mid == (lo + hi) \div 2
         IN  IF mid * mid <= n THEN ISqrtBetween(n, mid, hi)
             ELSE ISqrtBetween(n, lo, mid)

ISqrt(n) == ISqrtBetween(n, 0, 46340)

\* math.sqrt: ValueError ("math domain error") below zero.
Sqrt(v) ==
    IF v.k = "nan" THEN Ok(NaN)
    ELSE IF v.k = "inf" THEN (IF v.neg THEN Raise("ValueError") ELSE Ok(v))
    ELSE IF v.m = 0 THEN Ok(v)
    ELSE IF v.neg THEN Raise("ValueError")
    ELSE LET odd == v.e % 2 = 1
             m2  == IF odd THEN 10 * v.m ELSE v.m
             e2  == IF odd THEN v.e - 1 ELSE v.e
         IN  Ok(Canon(Num(FALSE, ISqrt(m2 * Pow10(6)), (e2 \div 2) - 3)))

\* Fixed-point numbers with 6 decimals: a * b for a, b >= 0.
Milli == Pow10(3)
Micro == Milli * Milli
MulFix(a, b) ==
    (a \div Milli) * (b \div Milli)
    + ((a \div Milli) * (b % Milli) + (a % Milli) * (b \div Milli)) \div Milli
    + ((a % Milli) * (b % Milli)) \div Micro

\* ln 2 and ln 10 to 6 decimals.
Ln2 == 693147
Ln10 == 2302585

RECURSIVE FloorLog2(_)
FloorLog2(m) == IF m < 2 THEN 0 ELSE 1 + FloorLog2(m \div 2)

RECURSIVE Pow2(_)
Pow2(n) == IF n = 0 THEN 1 ELSE 2 * Pow2(n - 1)

\* w + w^3/3 + ... + w^(2j+1)/(2j+1) over the terms from the j-th on; p is
\* w^(2j+1) and w2 is w^2.
RECURSIVE AtanhTerms(_, _, _, _)
AtanhTerms(p, w2, j, last) ==
    IF j > last THEN 0
    ELSE p \div (2 * j + 1) + AtanhTerms(MulFix(p, w2), w2, j + 1, last)

\* ln m of an integer m >= 1, with 6 decimals: m = 2^k * f with 1 <= f < 2,
\* ln f = 2 atanh(w), w = (f - 1) / (f + 1).
LnInt(m) ==
    LET k == FloorLog2(m)
        w == ((m - Pow2(k)) * Micro) \div (m + Pow2(k))
    IN  k * Ln2 + 2 * AtanhTerms(w, MulFix(w, w), 0, 7)

\* math.log: ValueError ("math domain error") at zero and below.
Log(v) ==
    IF v.k = "nan" THEN Ok(NaN)
    ELSE IF v.k = "inf" THEN (IF v.neg THEN Raise("ValueError") ELSE Ok(v))
    ELSE IF v.m = 0 \/ v.neg THEN Raise("ValueError")
    ELSE LET l == LnInt(v.m) + v.e * Ln10
         IN  Ok(Canon(Num(l < 0, IF l < 0 THEN 0 - l ELSE l, 0 - 6)))

(***************************************************************************)
(*                         The Telegram math bot                           *)
(*                                                                         *)
(* The handlers are coroutines on one event loop: a handler runs without   *)
(* interruption up to an `await`, and other handlers run while it waits    *)
(* for reply_text.  A reply_text call ends delivered, failed (a network or *)
(* API error raised at the await) or cancelled (CancelledError raised at   *)
(* the await).                                                             *)
(***************************************************************************)

\* Number of handler invocations in flight on the event loop.
MaxTasks == 2

Tasks == 1..MaxTasks

\* Argument words, as sequences of characters.
A25 == <<"2", "5">>
Aabc == <<"a", "b", "c">>
A0 == <<"0">>
Aneg4 == <<"-", "4">>
Ahalf == <<"0", ".", "5">>
A1e200 == <<"1", "e", "2", "0", "0">>
Anan == <<"n", "a", "n">>

\* The argument lists a /calc message is invoked with.
CalcArgLists ==
    { <<>>, <<A25>>, <<Aabc>>, <<A0>>, <<Aneg4>>, <<Ahalf>>, <<A1e200>>,
      <<Anan>>, <<A25, Aabc>>, <<Aabc, A25>> }

\* The argument lists a /start or /data message is invoked with.
OtherArgLists == { <<>> }

\* A message text.  The layout of numbers in the text is not modelled: a
\* result message is the values it reports, a table its header and rows.
Msg(kind, text, vals, header, rows) ==
    [kind |-> kind, text |-> text, vals |-> vals, header |-> header,
     rows |-> rows]

TextMsg(text) == Msg("text", text, <<>>, <<>>, <<>>)

\* lines 14-16
StartText ==
    TextMsg("Math Bot ready.\nCommands:\n/data - show pandas table\n/calc <number> - calculate square, sqrt, log")

\* line 39
UsageText == TextMsg("Send like: /calc 25")

\* lines 30-35: the f-string of the four labelled values.
ResultText(n, square, sqrt, log) ==
    Msg("result", "Number/Square/Sqrt/Log", <<n, square, sqrt, log>>,
        <<>>, <<>>)

\* ---- the pandas frame: column names and, beside them, the columns ----

Frame(columns, data) == [columns |-> columns, data |-> data]

NoFrame == Frame(<<>>, <<>>)

HasColumn(f, name) == \E j \in DOMAIN f.columns : f.columns[j] = name

\* df[name]
Column(f, name) ==
    f.data[CHOOSE j \in DOMAIN f.columns : f.columns[j] = name]

\* df[name] = series: a new column goes last, an existing one is replaced.
Setitem(f, name, series) ==
    IF HasColumn(f, name)
    THEN Frame(f.columns,
               [j \in DOMAIN f.data |->
                  IF f.columns[j] = name THEN series ELSE f.data[j]])
    ELSE Frame(Append(f.columns, name), Append(f.data, series))

\* a slip of get_df(): one module-level frame handed to every request, so
\* that a request starts from the columns an earlier /data added.
SharedFrame ==
    IF \E u \in Tasks : df[u] # NoFrame
    THEN df[CHOOSE u \in Tasks : df[u] # NoFrame]
    ELSE Frame(<<"numbers">>, << <<10, 20, 30, 40, 50>> >>)

\* lines 7-10: a new frame on every call.
get_df == Frame(<<"numbers">>, << <<10, 20, 30, 40, 50>> >>)

RECURSIVE IntPow(_, _)
IntPow(b, k) == IF k = 0 THEN 1 ELSE b * IntPow(b, k - 1)

\* series ** k, element by element.
SeriesPow(series, k) == [i \in DOMAIN series |-> IntPow(series[i], k)]

\* math.sqrt and math.log of an integer element.
MathSqrt(i) == Sqrt(IntToFloat(i))
MathLog(i) == Log(IntToFloat(i))

\* a slip of apply: the results land one row down (the last one wraps).
ApplyShifted(results) ==
    Ok([i \in DOMAIN results |-> results[(i % Len(results)) + 1].v])

\* series.apply(F), given F of every element: the values in place, or the
\* first exception F raised.
Apply(results) ==
    IF \E i \in DOMAIN results : results[i].exc # "none"
    THEN Raise(results[CHOOSE i \in DOMAIN results :
                         /\ results[i].exc # "none"
                         /\ \A j \in 1..(i - 1) : results[j].exc = "none"
                      ].exc)
    ELSE Ok([i \in DOMAIN results |-> results[i].v])

\* df["numbers"].apply(math.sqrt) and df["numbers"].apply(math.log)
ApplySqrt(series) == Apply([i \in DOMAIN series |-> MathSqrt(series[i])])
ApplyLog(series) == Apply([i \in DOMAIN series |-> MathLog(series[i])])

\* df.to_string(): the header and one row per index label 0, 1, ...
to_string(f) ==
    Msg("table", "", <<>>, f.columns,
        [i \in DOMAIN f.data[1] |->
           <<i - 1>> \o [j \in DOMAIN f.columns |-> f.data[j][i]]])

\* ---- context.args[0] ----

\* a slip of the subscript: args[-1], the last word.
SubscriptLast(seq, i) ==
    IF seq = <<>> THEN Raise("IndexError") ELSE Ok(seq[Len(seq)])

\* seq[i] for i >= 0: IndexError past the end.
Subscript(seq, i) ==
    IF i + 1 > Len(seq) THEN Raise("IndexError") ELSE Ok(seq[i + 1])

\* slips of the except clause: one that names ValueError, one that names
\* Exception (CancelledError is a BaseException), one that catches nothing.
CatchesValueError(e) == e = "ValueError"
CatchesException(e) == e # "CancelledError"
CatchesNothing(e) == FALSE

\* line 38: a bare `except:` catches every exception.
Catches(e) == TRUE

\* lines 30-35: the f-string evaluates its four values in order and stops
\* at the first exception.
FormatResult(n, sq, sr, lg) ==
    IF sq.exc # "none" THEN Raise(sq.exc)
    ELSE IF sr.exc # "none" THEN Raise(sr.exc)
    ELSE IF lg.exc # "none" THEN Raise(lg.exc)
    ELSE Ok(ResultText(n, sq.v, sr.v, lg.v))

\* line 29, the conversion: n = float(word)
CalcOfNumber(n) ==
    IF n.exc # "none" THEN Raise(n.exc)
    ELSE FormatResult(n.v, Square(n.v), Sqrt(n.v), Log(n.v))

\* line 29, the subscript: context.args[0]
CalcOfWord(word) ==
    IF word.exc # "none" THEN Raise(word.exc) ELSE CalcOfNumber(float(word.v))

\* lines 29-35: the try block up to the await.
CalcMessage(a) == CalcOfWord(Subscript(a, 0))

\* line 23: the "log" column; an exception of apply leaves the handler.
WithLog(f, lg) ==
    IF lg.exc # "none" THEN Raise(lg.exc) ELSE Ok(Setitem(f, "log", lg.v))

\* line 22: the "sqrt" column.
WithSqrt(f, sr) ==
    IF sr.exc # "none" THEN Raise(sr.exc)
    ELSE WithLog(Setitem(f, "sqrt", sr.v),
                 ApplyLog(Column(Setitem(f, "sqrt", sr.v), "numbers")))

\* line 21: the "square" column.
WithSquare(f) ==
    WithSqrt(Setitem(f, "square", SeriesPow(Column(f, "numbers"), 2)),
             ApplySqrt(Column(Setitem(f, "square",
                                      SeriesPow(Column(f, "numbers"), 2)),
                              "numbers")))

\* lines 20-23: the frame data() passes to to_string.
DataFrame == WithSquare(get_df)

\* The outcome of the try block for every argument list of the model.
TryBlock == [a \in CalcArgLists |-> CalcMessage(a)]

Attempt(msg) == [msg |-> msg, outcome |-> "pending"]

\* The last reply_text call ends with the given outcome.
Settle(as, outcome) ==
    [as EXCEPT ![Len(as)] = [@ EXCEPT !.outcome = outcome]]

\* The error raised at the await of a reply_text call that ended so.
SendError(outcome) ==
    IF outcome = "cancelled" THEN "CancelledError" ELSE "NetworkError"

BotStart ==
    /\ cmd = [t \in Tasks |-> "none"]
    /\ args = [t \in Tasks |-> <<>>]
    /\ pc = [t \in Tasks |-> "idle"]
    /\ fresh = [t \in Tasks |-> NoFrame]
    /\ df = [t \in Tasks |-> NoFrame]
    /\ caught = [t \in Tasks |-> "none"]
    /\ attempts = [t \in Tasks |-> <<>>]
    /\ exc = [t \in Tasks |-> "none"]

\* lines 44-46, 49: the framework invokes the handler of command c with the
\* words a that follow the command; the handler runs at once, up to its
\* first await.
Invoked(t, c, a) ==
    /\ pc[t] = "idle"
    /\ cmd' = [cmd EXCEPT ![t] = c]
    /\ args' = [args EXCEPT ![t] = a]

\* lines 12-17: start calls reply_text and waits.
Start(t) ==
    /\ \E a \in OtherArgLists : Invoked(t, "start", a)
    /\ attempts' = [attempts EXCEPT ![t] = Append(@, Attempt(StartText))]
    /\ pc' = [pc EXCEPT ![t] = "await_start"]
    /\ UNCHANGED <<fresh, df, caught, exc>>
    /\ UNCHANGED <<tailVars, plotVars>>

\* lines 19-25: data builds the frame, adds the three columns, calls
\* reply_text with the table and waits.
Data(t) ==
    /\ \E a \in OtherArgLists : Invoked(t, "data", a)
    /\ fresh' = [fresh EXCEPT ![t] = get_df]
    /\ IF DataFrame.exc # "none"
       THEN /\ exc' = [exc EXCEPT ![t] = DataFrame.exc]
            /\ pc' = [pc EXCEPT ![t] = "raised"]
            /\ UNCHANGED <<df, attempts>>
       ELSE /\ df' = [df EXCEPT ![t] = DataFrame.v]
            /\ attempts' =
                 [attempts EXCEPT ![t] = Append(@, Attempt(to_string(DataFrame.v)))]
            /\ pc' = [pc EXCEPT ![t] = "await_data"]
            /\ exc' = exc
    /\ UNCHANGED caught
    /\ UNCHANGED <<tailVars, plotVars>>

\* lines 27-39 up to the first await: the try block either calls reply_text
\* with the result, or raises, and then the except clause calls reply_text
\* with the usage text.
CalcRuns(t, a) ==
    IF TryBlock[a].exc = "none"
    THEN /\ attempts' =
              [attempts EXCEPT ![t] = Append(@, Attempt(TryBlock[a].v))]
         /\ pc' = [pc EXCEPT ![t] = "await_result"]
         /\ UNCHANGED <<caught, exc>>
    ELSE IF Catches(TryBlock[a].exc)
    THEN /\ caught' = [caught EXCEPT ![t] = TryBlock[a].exc]
         /\ attempts' = [attempts EXCEPT ![t] = Append(@, Attempt(UsageText))]
         /\ pc' = [pc EXCEPT ![t] = "await_usage"]
         /\ exc' = exc
    ELSE /\ exc' = [exc EXCEPT ![t] = TryBlock[a].exc]
         /\ pc' = [pc EXCEPT ![t] = "raised"]
         /\ UNCHANGED <<caught, attempts>>

Calc(t) ==
    /\ \E a \in CalcArgLists : Invoked(t, "calc", a) /\ CalcRuns(t, a)
    /\ UNCHANGED <<fresh, df>>
    /\ UNCHANGED <<tailVars, plotVars>>

Awaiting(t) ==
    pc[t] \in {"await_start", "await_data", "await_result", "await_usage"}

\* reply_text returns: the message is delivered and the handler returns.
ReplyDelivered(t) ==
    /\ Awaiting(t)
    /\ attempts' = [attempts EXCEPT ![t] = Settle(@, "ok")]
    /\ pc' = [pc EXCEPT ![t] = "done"]
    /\ UNCHANGED <<cmd, args, fresh, df, caught, exc>>
    /\ UNCHANGED <<tailVars, plotVars>>

\* reply_text raises at the await.  Line 36 lies in the try block, so its
\* exception reaches the except clause, which calls reply_text with the
\* usage text; everywhere else the exception leaves the handler.
ReplyRaises(t) ==
    /\ Awaiting(t)
    /\ \E outcome \in {"failed", "cancelled"} :
         IF pc[t] = "await_result" /\ Catches(SendError(outcome))
         THEN /\ caught' = [caught EXCEPT ![t] = SendError(outcome)]
              /\ attempts' =
                   [attempts EXCEPT ![t] =
                      Append(Settle(@, outcome), Attempt(UsageText))]
              /\ pc' = [pc EXCEPT ![t] = "await_usage"]
              /\ exc' = exc
         ELSE /\ attempts' = [attempts EXCEPT ![t] = Settle(@, outcome)]
              /\ exc' = [exc EXCEPT ![t] = SendError(outcome)]
              /\ pc' = [pc EXCEPT ![t] = "raised"]
              /\ caught' = caught
    /\ UNCHANGED <<cmd, args, fresh, df>>
    /\ UNCHANGED <<tailVars, plotVars>>

(***************************************************************************)
(*                         The plotting script                             *)
(*                                                                         *)
(* Numbers are fixed-point with 6 decimals.  np.sin and np.cos work the    *)
(* way a libm does: the argument is reduced to [0, pi/4] and one of two    *)
(* kernels, a sine and a cosine polynomial, is evaluated there.            *)
(***************************************************************************)

\* np.linspace(0, 10, 200)
XStart == 0
XStop == 10
NumSamples == 200

\* pi / 2 to 6 decimals.
HalfPi == 1570796

\* start + i * (stop - start) / (num - 1), for i = 0 .. num - 1.
LinPoint(start, stop, num, i) ==
    start * Micro
    + ((i * (stop - start) * Milli) \div (num - 1)) * Milli
    + (((i * (stop - start) * Milli) % (num - 1)) * Milli) \div (num - 1)

linspace(start, stop, num) ==
    [i \in 1..num |-> LinPoint(start, stop, num, i - 1)]

\* 1 - r2/(2k-1)(2k) * (1 - r2/(2k+1)(2k+2) * ( ... )): the cosine kernel
\* from its k-th factor on, r2 being r^2.
RECURSIVE CosKernel(_, _, _)
CosKernel(r2, k, last) ==
    IF k > last THEN Micro
    ELSE Micro - MulFix(r2 \div ((2 * k - 1) * (2 * k)),
                        CosKernel(r2, k + 1, last))

\* 1 - r2/(2k)(2k+1) * ( ... ): the sine kernel divided by r.
RECURSIVE SinKernel(_, _, _)
SinKernel(r2, k, last) ==
    IF k > last THEN Micro
    ELSE Micro - MulFix(r2 \div ((2 * k) * (2 * k + 1)),
                        SinKernel(r2, k + 1, last))

\* sin and cos of r in [0, pi/2].
SinQuarter(r) ==
    IF 2 * r <= HalfPi THEN MulFix(r, SinKernel(MulFix(r, r), 1, 6))
    ELSE CosKernel(MulFix(HalfPi - r, HalfPi - r), 1, 6)

CosQuarter(r) == SinQuarter(HalfPi - r)

\* np.sin of one element, t >= 0.
Sin(t) ==
    LET q == (t \div HalfPi) % 4
        r == t % HalfPi
    IN  CASE q = 0 -> SinQuarter(r)
          [] q = 1 -> CosQuarter(r)
          [] q = 2 -> 0 - SinQuarter(r)
          [] OTHER -> 0 - CosQuarter(r)

\* np.cos of one element, t >= 0.
Cos(t) ==
    LET q == (t \div HalfPi) % 4
        r == t % HalfPi
    IN  CASE q = 0 -> CosQuarter(r)
          [] q = 1 -> 0 - SinQuarter(r)
          [] q = 2 -> 0 - CosQuarter(r)
          [] OTHER -> SinQuarter(r)

\* a slip of line 7: another amplitude.
ZSampleTripled(t) == Cos(t) * 3

\* line 6 and line 7, for one element.
YSample(t) == Sin(t)
ZSample(t) == Cos(t) * 2

\* max(y) and min(y) of a non-empty sequence.
SeqMax(seq) ==
    seq[CHOOSE i \in DOMAIN seq : \A j \in DOMAIN seq : seq[j] <= seq[i]]

SeqMin(seq) ==
    seq[CHOOSE i \in DOMAIN seq : \A j \in DOMAIN seq : seq[j] >= seq[i]]

PlotStart ==
    /\ plotPc = "linspace"
    /\ x = <<>> /\ y = <<>> /\ z = <<>> /\ plotOut = <<>>

\* The script is not run.
PlotIdle == PlotStart

\* line 5
Linspace ==
    /\ plotPc = "linspace"
    /\ x' = linspace(XStart, XStop, NumSamples)
    /\ plotPc' = "sin"
    /\ UNCHANGED <<y, z, plotOut>>
    /\ UNCHANGED <<tailVars, botVars>>

\* line 6: np.sin(x) fills y element by element.
SinElement ==
    /\ plotPc = "sin"
    /\ Len(y) < Len(x)
    /\ y' = Append(y, YSample(x[Len(y) + 1]))
    /\ UNCHANGED <<plotPc, x, z, plotOut>>
    /\ UNCHANGED <<tailVars, botVars>>

SinDone ==
    /\ plotPc = "sin"
    /\ Len(y) = Len(x)
    /\ plotPc' = "cos"
    /\ UNCHANGED <<x, y, z, plotOut>>
    /\ UNCHANGED <<tailVars, botVars>>

\* line 7: np.cos(x) * 2 fills z element by element.
CosElement ==
    /\ plotPc = "cos"
    /\ Len(z) < Len(x)
    /\ z' = Append(z, ZSample(x[Len(z) + 1]))
    /\ UNCHANGED <<plotPc, x, y, plotOut>>
    /\ UNCHANGED <<tailVars, botVars>>

CosDone ==
    /\ plotPc = "cos"
    /\ Len(z) = Len(x)
    /\ plotPc' = "print_max"
    /\ UNCHANGED <<x, y, z, plotOut>>
    /\ UNCHANGED <<tailVars, botVars>>

\* line 9
PrintMax ==
    /\ plotPc = "print_max"
    /\ plotOut' = Append(plotOut, <<"Max of sin(x):", SeqMax(y)>>)
    /\ plotPc' = "print_min"
    /\ UNCHANGED <<x, y, z>>
    /\ UNCHANGED <<tailVars, botVars>>

\* line 10
PrintMin ==
    /\ plotPc = "print_min"
    /\ plotOut' = Append(plotOut, <<"Min of sin(x):", SeqMin(y)>>)
    /\ plotPc' = "plot"
    /\ UNCHANGED <<x, y, z>>
    /\ UNCHANGED <<tailVars, botVars>>

\* lines 13-22: the chart is drawn and shown; the data are not changed.
Show ==
    /\ plotPc = "plot"
    /\ plotPc' = "done"
    /\ UNCHANGED <<x, y, z, plotOut>>
    /\ UNCHANGED <<tailVars, botVars>>

(***************************************************************************)
(*                          The specifications                             *)
(***************************************************************************)

TailInit == TailStart /\ BotStart /\ PlotIdle
TailNext == Open \/ ReadLines \/ PrintLine \/ Close
SpecTail == TailInit /\ [][TailNext]_vars

BotInit == BotStart /\ TailIdle /\ PlotIdle
BotNext ==
    \E t \in Tasks :
        \/ Start(t)
        \/ Data(t)
        \/ Calc(t)
        \/ ReplyDelivered(t)
        \/ ReplyRaises(t)
SpecBot == BotInit /\ [][BotNext]_vars

PlotInit == PlotStart /\ TailIdle /\ BotStart
PlotNext ==
    \/ Linspace
    \/ SinElement
    \/ SinDone
    \/ CosElement
    \/ CosDone
    \/ PrintMax
    \/ PrintMin
    \/ Show
SpecPlot == PlotInit /\ [][PlotNext]_vars

(***************************************************************************)
(*                  Properties of show_last_20_lines                       *)
(***************************************************************************)

\* The lines of a file as stored: split after "\n", "\r\n" or a lone "\r",
\* every line keeping the terminator the file holds.
RECURSIVE StoredLines(_, _)
StoredLines(cs, cur) ==
    IF cs = <<>> THEN (IF cur = <<>> THEN <<>> ELSE <<cur>>)
    ELSE IF Head(cs) = CR /\ Len(cs) >= 2 /\ cs[2] = LF
         THEN <<cur \o <<CR, LF>>>> \o StoredLines(Tail(Tail(cs)), <<>>)
    ELSE IF Head(cs) \in {CR, LF}
         THEN <<Append(cur, Head(cs))>> \o StoredLines(Tail(cs), <<>>)
    ELSE StoredLines(Tail(cs), Append(cur, Head(cs)))

FileLines == StoredLines(fileData, <<>>)

\* The last min(n, k) of n lines, in file order.
LastLines(ls, k) ==
    [ i \in 1..Min(Len(ls), k) |-> ls[Len(ls) - Min(Len(ls), k) + i] ]

RECURSIVE Flatten(_)
Flatten(ls) == IF ls = <<>> THEN <<>> ELSE Head(ls) \o Flatten(Tail(ls))

\* A stored line with its terminator, if it has one, written as "\n".
RECURSIVE WithLF(_)
WithLF(line) ==
    IF line = <<>> THEN <<>>
    ELSE IF Head(line) \in {CR, LF} THEN <<LF>>
    ELSE <<Head(line)>> \o WithLF(Tail(line))

\* What has been emitted by the time the loop stands at position `it`.
EmittedSoFar(ls) ==
    IF tailPc = "done" THEN ls
    ELSE IF tailPc = "loop" THEN SubSeq(ls, 1, it - 1)
    ELSE <<>>

\* C1 as stated: the output is the last min(n, 20) lines of the file, each
\* unmodified (character for character as the file stores it), in file order.
C1_EmitsStoredLinesUnmodified ==
    tailPc = "done" => stdout = Flatten(LastLines(FileLines, TailCount))

\* C1 amended: at every point of the loop the output is, in file order, the
\* leading part of the last min(n, 20) lines of the file, and all of them
\* once the function returns; each line's text is unmodified and its
\* terminator ("\n", "\r\n" or "\r") is emitted as "\n"; no earlier line and
\* nothing else is emitted.
C1_EmitsLastLinesNewlinesTranslated ==
    LET want == [ i \in 1..Min(Len(FileLines), TailCount) |->
                    WithLF(LastLines(FileLines, TailCount)[i]) ]
    IN  /\ stdout = Flatten(EmittedSoFar(want))
        /\ tailPc = "done" =>
             Len(want) = (IF Len(FileLines) < TailCount THEN Len(FileLines)
                          ELSE TailCount)

\* C1 witness: a file of more than 20 lines, some ended by "\r", was printed.
C1_Witness ==
    /\ tailPc = "done"
    /\ Len(FileLines) > TailCount
    /\ \E i \in DOMAIN fileData : fileData[i] = CR
    /\ stdout # <<>>

\* C7: with a missing path the call ends in FileNotFoundError, which leaves
\* the function uncaught, and nothing is ever printed.
C7_MissingPathRaises ==
    (~fileExists /\ tailPc # "call") =>
        /\ tailPc = "raised"
        /\ tailExc = "FileNotFoundError"
        /\ stdout = <<>>

\* C7 witness: the call on a missing path has raised.
C7_Witness == ~fileExists /\ tailPc = "raised" /\ tailExc # "none"

(***************************************************************************)
(*                        Properties of the bot                            *)
(***************************************************************************)

IsUsage(m) == m.kind = "text" /\ m.text = "Send like: /calc 25"
IsResult(m) == m.kind = "result"
IsTable(m) == m.kind = "table"

Calls(t) == DOMAIN attempts[t]
Raised(outcome) == outcome \in {"failed", "cancelled"}

\* The handler of t was invoked as /calc with first argument w.
CalcWithFirst(t, w) == cmd[t] = "calc" /\ args[t] # <<>> /\ args[t][1] = w

\* A finite float in millionths (its exponent is at least -6).
ToMicro(v) ==
    (IF v.neg THEN 0 - 1 ELSE 1) * v.m * Pow10(v.e + 6)

Near(a, b, tol) == a - b <= tol /\ b - a <= tol

\* C2: with a first argument that does not parse ('abc') the handler makes
\* one reply_text call, it carries the usage text, and no result message is
\* sent.
C2_UnparsableGetsUsage ==
    \A t \in Tasks :
        CalcWithFirst(t, Aabc) =>
            /\ Len(attempts[t]) = 1
            /\ IsUsage(attempts[t][1].msg)
            /\ \A i \in Calls(t) : ~IsResult(attempts[t][i].msg)
            /\ (pc[t] = "done" => attempts[t][1].outcome = "ok")

\* C2 witness: /calc abc has been answered with the usage text.
C2_Witness ==
    \E t \in Tasks :
        /\ args[t] = <<Aabc>> /\ cmd[t] = "calc" /\ pc[t] = "done"
        /\ attempts[t][1].outcome = "ok"

\* The three failure kinds C3 names: no argument; an argument that does not
\* parse; a parsed number that is zero or negative.
MissingArg(t) == cmd[t] = "calc" /\ args[t] = <<>>
UnparsableArg(t) == CalcWithFirst(t, Aabc)
NonPositiveArg(t) == CalcWithFirst(t, A0) \/ CalcWithFirst(t, Aneg4)
NamedFailure(t) == MissingArg(t) \/ UnparsableArg(t) \/ NonPositiveArg(t)

\* C3 as stated: each of the three failure kinds produces exactly the usage
\* reply, and no exception leaves the handler.
C3_FailuresNeverPropagate ==
    \A t \in Tasks :
        NamedFailure(t) =>
            /\ Len(attempts[t]) = 1
            /\ IsUsage(attempts[t][1].msg)
            /\ exc[t] = "none"
            /\ pc[t] # "raised"

\* C3 amended: each of the three failure kinds is swallowed by the except
\* clause and leads to exactly one reply_text call, carrying the usage text
\* whatever the cause; an exception leaves the handler only when that send
\* itself fails or is cancelled, and it is then the exception of the send.
C3_FailuresGetUsage ==
    \A t \in Tasks :
        NamedFailure(t) =>
            /\ Len(attempts[t]) = 1
            /\ IsUsage(attempts[t][1].msg)
            /\ caught[t] = (IF MissingArg(t) THEN "IndexError" ELSE "ValueError")
            /\ (pc[t] = "done" => attempts[t][1].outcome = "ok" /\ exc[t] = "none")
            /\ (exc[t] # "none" =>
                  /\ Raised(attempts[t][1].outcome)
                  /\ exc[t] = (IF attempts[t][1].outcome = "cancelled"
                               THEN "CancelledError" ELSE "NetworkError"))

\* C3 witness: a /calc without argument and a /calc of a non-positive number
\* have both been answered, with the same text.
C3_Witness ==
    \E t, u \in Tasks :
        /\ MissingArg(t) /\ NonPositiveArg(u)
        /\ pc[t] = "done" /\ pc[u] = "done"
        /\ attempts[t][1].msg = attempts[u][1].msg

\* The values Python computes, in millionths: n, n ** 2, sqrt(n), log(n).
Expected25 == <<25000000, 625000000, 5000000, 3218876>>
ExpectedHalf == <<500000, 250000, 707107, 0 - 693147>>

\* A result message reports the wanted values: the number and its square
\* exactly, the root and the logarithm to 4 decimals.
Reports(m, want) ==
    /\ IsResult(m)
    /\ \A i \in 1..4 : m.vals[i].k = "num"
    /\ ToMicro(m.vals[1]) = want[1]
    /\ ToMicro(m.vals[2]) = want[2]
    /\ Near(ToMicro(m.vals[3]), want[3], 100)
    /\ Near(ToMicro(m.vals[4]), want[4], 100)

\* C4 as stated: /calc 25 is answered by the result message (625, 5.0,
\* 3.2189) and the usage text is not sent; every positive parsed number gets
\* a result message.
C4_PositiveAlwaysReported ==
    \A t \in Tasks :
        /\ CalcWithFirst(t, A25) =>
             /\ Len(attempts[t]) >= 1
             /\ Reports(attempts[t][1].msg, Expected25)
             /\ \A i \in Calls(t) : ~IsUsage(attempts[t][i].msg)
        /\ CalcWithFirst(t, Ahalf) =>
             /\ Len(attempts[t]) >= 1
             /\ Reports(attempts[t][1].msg, ExpectedHalf)
        /\ CalcWithFirst(t, A1e200) =>
             /\ Len(attempts[t]) >= 1
             /\ IsResult(attempts[t][1].msg)

\* C4 amended: for /calc 25 the first reply_text call carries the result
\* message with square 625, sqrt 5.0 and log 3.2189 (to 4 decimals), and
\* the usage text is sent only after that send failed or was cancelled; for
\* a positive parsed number whose square is within the range of a float the
\* first call carries its square, root and logarithm; a number whose square
\* overflows (1e200) gets the usage text and no result.
C4_ReportsSquareRootLog ==
    \A t \in Tasks :
        /\ CalcWithFirst(t, A25) =>
             /\ Len(attempts[t]) >= 1
             /\ Reports(attempts[t][1].msg, Expected25)
             /\ \A i \in Calls(t) :
                  IsUsage(attempts[t][i].msg) =>
                      i = 2 /\ Raised(attempts[t][1].outcome)
             /\ (pc[t] = "done" /\ attempts[t][1].outcome = "ok" =>
                    Len(attempts[t]) = 1)
        /\ CalcWithFirst(t, Ahalf) =>
             /\ Len(attempts[t]) >= 1
             /\ Reports(attempts[t][1].msg, ExpectedHalf)
        /\ CalcWithFirst(t, A1e200) =>
             /\ Len(attempts[t]) = 1
             /\ IsUsage(attempts[t][1].msg)

\* C4 witness: /calc 25 has been answered with the result message.
C4_Witness ==
    \E t \in Tasks :
        /\ CalcWithFirst(t, A25) /\ pc[t] = "done"
        /\ Len(attempts[t]) = 1
        /\ IsResult(attempts[t][1].msg) /\ attempts[t][1].outcome = "ok"

\* math.log of 10, 20, 30, 40, 50 as Python computes it, in millionths.
ExpectedLogs == <<2302585, 2995732, 3401197, 3688879, 3912023>>

\* C5: the table of /data has the columns numbers, square, sqrt, log and
\* five rows, for 10, 20, 30, 40, 50 in that order under the labels 0..4;
\* in every row the square is the number times itself, the sqrt is the root
\* of the number (to 3 decimals) and the log is its natural logarithm (to 4
\* decimals).
C5_TableMatchesDirectComputation ==
    \A t \in Tasks :
        cmd[t] = "data" =>
            LET m == attempts[t][1].msg
            IN  /\ Len(attempts[t]) = 1
                /\ IsTable(m)
                /\ m.header = <<"numbers", "square", "sqrt", "log">>
                /\ Len(m.rows) = 5
                /\ \A i \in 1..5 :
                     /\ Len(m.rows[i]) = 5
                     /\ m.rows[i][1] = i - 1
                     /\ m.rows[i][2] = 10 * i
                     /\ m.rows[i][3] = (10 * i) * (10 * i)
                     /\ m.rows[i][4].k = "num" /\ ~m.rows[i][4].neg
                     /\ (ToMicro(m.rows[i][4]) \div Milli)
                          * (ToMicro(m.rows[i][4]) \div Milli)
                            <= 10 * i * Micro
                     /\ (ToMicro(m.rows[i][4]) \div Milli + 1)
                          * (ToMicro(m.rows[i][4]) \div Milli + 1)
                            > 10 * i * Micro
                     /\ m.rows[i][5].k = "num"
                     /\ Near(ToMicro(m.rows[i][5]), ExpectedLogs[i], 100)

\* C5 witness: a /data request has been answered with its table.
C5_Witness ==
    \E t \in Tasks :
        /\ cmd[t] = "data" /\ pc[t] = "done"
        /\ IsTable(attempts[t][1].msg) /\ attempts[t][1].outcome = "ok"

\* Two invocations have had the same outcomes of their first i - 1 sends.
SameOutcomesBefore(t, u, i) ==
    \A j \in 1..(i - 1) : attempts[t][j].outcome = attempts[u][j].outcome

\* C6: whatever the other handlers have done in between, (a) two
\* invocations of the same command with the same arguments make the same
\* reply_text calls (as long as their earlier sends ended alike), and (b)
\* every /data request starts from a frame that holds the "numbers" column
\* alone and passes a frame of its own four columns to to_string.
C6_RepliesDependOnOwnArguments ==
    /\ \A t, u \in Tasks :
         (cmd[t] # "none" /\ cmd[t] = cmd[u] /\ args[t] = args[u]) =>
             \A i \in Calls(t) \cap Calls(u) :
                 SameOutcomesBefore(t, u, i) =>
                     attempts[t][i].msg = attempts[u][i].msg
    /\ \A t \in Tasks :
         cmd[t] = "data" =>
             /\ fresh[t].columns = <<"numbers">>
             /\ fresh[t].data = << <<10, 20, 30, 40, 50>> >>
             /\ df[t].columns = <<"numbers", "square", "sqrt", "log">>

\* C6 witness: two /data requests overlap: one has been answered while the
\* other, already started, still waits for its reply_text.
C6_Witness ==
    \E t, u \in Tasks :
        /\ t # u /\ cmd[t] = "data" /\ cmd[u] = "data"
        /\ pc[t] = "await_data" /\ pc[u] = "done"

\* The first argument exists, parses, and its square, root and logarithm
\* compute: of the words of the model, 25, 0.5 and nan (float('nan') is a
\* float, and nan ** 2, math.sqrt(nan) and math.log(nan) are nan, without
\* error).
ValidFirst(t) ==
    CalcWithFirst(t, A25) \/ CalcWithFirst(t, Ahalf) \/ CalcWithFirst(t, Anan)

SameFirst(t, u) ==
    \/ args[t] = <<>> /\ args[u] = <<>>
    \/ args[t] # <<>> /\ args[u] # <<>> /\ args[t][1] = args[u][1]

\* C9: a /calc invocation none of whose sends failed makes exactly one
\* reply_text call; it carries the result message if the first argument is
\* valid and the usage text otherwise.  No invocation has both a result and
\* a usage message delivered.  Invocations that agree on the first argument
\* make the same calls, whatever follows the first argument.
C9_OneReplyDecidedByFirstArgument ==
    /\ \A t \in Tasks :
         (cmd[t] = "calc" /\ pc[t] = "done"
            /\ \A i \in Calls(t) : attempts[t][i].outcome = "ok") =>
             /\ Len(attempts[t]) = 1
             /\ IsResult(attempts[t][1].msg) <=> ValidFirst(t)
             /\ ~ValidFirst(t) => IsUsage(attempts[t][1].msg)
    /\ \A t \in Tasks :
         cmd[t] = "calc" =>
             ~\E i, j \in Calls(t) :
                 /\ attempts[t][i].outcome = "ok" /\ IsResult(attempts[t][i].msg)
                 /\ attempts[t][j].outcome = "ok" /\ IsUsage(attempts[t][j].msg)
    /\ \A t, u \in Tasks :
         (cmd[t] = "calc" /\ cmd[u] = "calc" /\ SameFirst(t, u)) =>
             \A i \in Calls(t) \cap Calls(u) :
                 SameOutcomesBefore(t, u, i) =>
                     attempts[t][i].msg = attempts[u][i].msg

\* C9 witness: /calc 25 and /calc 25 abc have both been answered with the
\* result message, and nothing else.
C9_Witness ==
    \E t, u \in Tasks :
        /\ cmd[t] = "calc" /\ args[t] = <<A25>> /\ pc[t] = "done"
        /\ cmd[u] = "calc" /\ args[u] = <<A25, Aabc>> /\ pc[u] = "done"
        /\ Len(attempts[t]) = 1 /\ Len(attempts[u]) = 1
        /\ IsResult(attempts[u][1].msg)

\* C10: when the send of the result message fails or is cancelled, the
\* except clause swallows that exception and calls reply_text with the
\* usage text; the only exception that ever leaves the /calc handler is the
\* one raised by the send of the usage text.
C10_ResultSendFailureFallsBackToUsage ==
    \A t \in Tasks :
        cmd[t] = "calc" =>
            /\ Len(attempts[t]) >= 1
            /\ (IsResult(attempts[t][1].msg) /\ Raised(attempts[t][1].outcome)) =>
                  /\ Len(attempts[t]) = 2
                  /\ IsUsage(attempts[t][2].msg)
                  /\ caught[t] = (IF attempts[t][1].outcome = "cancelled"
                                  THEN "CancelledError" ELSE "NetworkError")
            /\ (pc[t] = "raised") <=> (exc[t] # "none")
            /\ exc[t] # "none" =>
                  LET last == attempts[t][Len(attempts[t])]
                  IN  /\ IsUsage(last.msg)
                      /\ Raised(last.outcome)
                      /\ exc[t] = (IF last.outcome = "cancelled"
                                   THEN "CancelledError" ELSE "NetworkError")

\* C10 witness: the send of the result of /calc 25 was cancelled, the usage
\* text was sent instead, and the failure of that send left the handler.
C10_Witness ==
    \E t \in Tasks :
        /\ CalcWithFirst(t, A25) /\ pc[t] = "raised"
        /\ Len(attempts[t]) = 2
        /\ IsResult(attempts[t][1].msg) /\ attempts[t][1].outcome = "cancelled"
        /\ IsUsage(attempts[t][2].msg) /\ attempts[t][2].outcome = "failed"
        /\ exc[t] = "NetworkError"

(***************************************************************************)
(*                   Properties of the plotting script                     *)
(***************************************************************************)

\* C8: every sample of sin(x) lies in [-1, 1] and every sample of 2*cos(x)
\* in [-2, 2]; once complete there are 200 samples of each, over 200 points
\* from 0 to 10; the printed maximum and minimum are those of the sin
\* samples and lie in [-1, 1].
C8_SamplesWithinBounds ==
    /\ \A i \in DOMAIN y : 0 - Micro <= y[i] /\ y[i] <= Micro
    /\ \A i \in DOMAIN z : 0 - 2 * Micro <= z[i] /\ z[i] <= 2 * Micro
    /\ plotPc # "linspace" =>
         /\ Len(x) = 200 /\ x[1] = 0 /\ x[200] = 10 * Micro
         /\ \A i \in 1..199 : x[i] < x[i + 1]
    /\ plotPc \notin {"linspace", "sin"} => Len(y) = 200
    /\ plotPc \notin {"linspace", "sin", "cos"} => Len(z) = 200
    /\ \A i \in DOMAIN plotOut :
         /\ 0 - Micro <= plotOut[i][2] /\ plotOut[i][2] <= Micro
         /\ \E j \in DOMAIN y : y[j] = plotOut[i][2]
         /\ i = 1 => \A j \in DOMAIN y : y[j] <= plotOut[i][2]
         /\ i = 2 => \A j \in DOMAIN y : y[j] >= plotOut[i][2]

\* C8 witness: the script has run; both curves come close to their bounds
\* (within a thousandth) on both sides, and both extremes were printed.
C8_Witness ==
    /\ plotPc = "done"
    /\ Len(plotOut) = 2
    /\ plotOut[1][2] > Micro - Milli /\ plotOut[2][2] < Milli - Micro
    /\ \E i \in DOMAIN z : z[i] > 2 * Micro - Milli
    /\ \E i \in DOMAIN z : z[i] < Milli - 2 * Micro

=============================================================================
